---- MODULE Spec2Model ----
(***************************************************************************)
(* Model of secure_cv_profile_system.py: the KeyChain key registry (a      *)
(* doubly linked list of KeyNode with a key_id index) and the SecureCV     *)
(* field vault (per-field AES-GCM envelopes, field -> key id map, key      *)
(* rotation and key export).                                               *)
(*                                                                         *)
(* Representation.                                                         *)
(*  - A KeyNode object is a record; a reference to it is its allocation    *)
(*    number 1..Len(nodes); the Python reference None is NoRef.            *)
(*  - Python str and bytes are TLA+ strings; None in a position typed      *)
(*    Optional[str] / Optional[bytes] is the string None.                  *)
(*  - A Python value of type Any (a CV field value) is a record            *)
(*    [type, val]: type is type(v).__name__, val the sequence of its       *)
(*    atoms; None there is NoneValue.                                      *)
(*  - secrets.token_hex / secrets.token_bytes (128 and 256 random bits)    *)
(*    are modelled as fresh, never repeated values; the 96-bit nonce is    *)
(*    drawn nondeterministically from NonceSpace.                          *)
(*  - AESGCM is an ideal AEAD box: decryption yields the plaintext only    *)
(*    with the sealing key and nonce on an unmodified ciphertext.          *)
(***************************************************************************)
EXTENDS Integers, Sequences, FiniteSets, TLC

VARIABLES nodes, head, tail, current, key_map, size,
          encrypted, field_key_map,
          now, last, loadedMulti, revokedOk, ops, rot

vars == <<nodes, head, tail, current, key_map, size,
          encrypted, field_key_map, now, last, loadedMulti, revokedOk, ops,
          rot>>

(* ------------------------------ bounds -------------------------------- *)

MaxKeys == 3
MaxTime == 1
MaxNonce == 0
MaxOps == 4

NonceSpace == 0..MaxNonce
Fields == {"name", "email"}

(* --------------------------- Python values ---------------------------- *)

NoRef == 0
None == "None"
NoneValue == [type |-> "NoneType", val |-> <<>>]

PyStr(x) == [type |-> "str", val |-> <<x>>]
PyInt(x) == [type |-> "int", val |-> <<x>>]
PyList(xs) == [type |-> "list", val |-> xs]
PyDict(kvs) == [type |-> "dict", val |-> kvs]
PySet(xs) == [type |-> "set", val |-> xs]

\* the values a CV field is loaded with
Values == {PyStr("A"), PyInt("5"), PyList(<<"A">>), PySet(<<"A">>)}

\* what json.loads can return for the texts json.dumps produces here
JsonValues == {v \in Values : v.type \in {"str", "int", "list", "dict", "NoneType"}}

Quote(x) == "\"" \o x \o "\""

RECURSIVE JoinItems(_, _)
JoinItems(xs, i) ==
    IF i > Len(xs) THEN ""
    ELSE Quote(xs[i]) \o (IF i < Len(xs) THEN ", " ELSE "") \o JoinItems(xs, i + 1)

RECURSIVE JoinPairs(_, _)
JoinPairs(kvs, i) ==
    IF i > Len(kvs) THEN ""
    ELSE Quote(kvs[i]) \o ": " \o Quote(kvs[i + 1])
         \o (IF i + 1 < Len(kvs) THEN ", " ELSE "") \o JoinPairs(kvs, i + 2)

\* json.dumps raises TypeError on a value that is not JSON serializable
JsonSerializable(v) == v.type \in {"str", "int", "list", "dict", "NoneType"}

json_dumps(v) ==
    CASE v.type = "str" -> Quote(v.val[1])
      [] v.type = "int" -> v.val[1]
      [] v.type = "NoneType" -> "null"
      [] v.type = "list" -> "[" \o JoinItems(v.val, 1) \o "]"
      [] v.type = "dict" -> "{" \o JoinPairs(v.val, 1) \o "}"
      [] OTHER -> "TypeError"

JsonParsable(text) == \E v \in JsonValues : json_dumps(v) = text

json_loads(text) == CHOOSE v \in JsonValues : json_dumps(v) = text

(* ------------------------- encodings and AEAD ------------------------- *)

b64encode(x) == <<"b64", x>>
b64decode(s) == s[2]

utf8encode(text) == <<"utf8", text>>
utf8decode(b) == b[2]

AESGCM_encrypt(key, nonce, data) ==
    [k |-> key, n |-> nonce, data |-> data, intact |-> TRUE]

\* InvalidTag unless the key, the nonce and the ciphertext are the sealed ones
AESGCM_valid(key, nonce, ct) == ct.intact /\ ct.k = key /\ ct.n = nonce

(* ------------------------------ KeyChain ------------------------------ *)

Digit(n) == ToString(n)
token_hex(n) == "id" \o Digit(n)
token_bytes(n) == "key" \o Digit(n)

KeyNode(key_id, key_bytes, t) ==
    [key_id |-> key_id, key_bytes |-> key_bytes, timestamp |-> t,
     revoked |-> FALSE, encrypted_fields |-> {}, prev |-> NoRef, next |-> NoRef]

\* the program state as one record, so that handlers compose as in the code
State == [nodes |-> nodes, head |-> head, tail |-> tail, current |-> current,
          key_map |-> key_map, size |-> size,
          encrypted |-> encrypted, field_key_map |-> field_key_map]

StateP == [nodes |-> nodes', head |-> head', tail |-> tail', current |-> current',
           key_map |-> key_map', size |-> size',
           encrypted |-> encrypted', field_key_map |-> field_key_map']

dict_get(d, k) == IF k \in DOMAIN d THEN d[k] ELSE NoRef

\* create_key that does not link the old tail to the new record
create_key_unlinked(s, t) ==
    LET drawn == Len(s.nodes) + 1
        key_id == token_hex(drawn)
        key_bytes == token_bytes(drawn)
        ref == Len(s.nodes) + 1
        node == KeyNode(key_id, key_bytes, t)
        linked == IF s.head = NoRef
                  THEN Append(s.nodes, node)
                  ELSE Append(s.nodes, [node EXCEPT !.prev = s.tail])
    IN [s |-> [s EXCEPT !.nodes = linked,
                        !.head = IF s.head = NoRef THEN ref ELSE s.head,
                        !.tail = ref,
                        !.current = ref,
                        !.key_map = (key_id :> ref) @@ s.key_map,
                        !.size = s.size + 1],
        node |-> ref]

create_key(s, t) ==
    LET drawn == Len(s.nodes) + 1
        key_id == token_hex(drawn)
        key_bytes == token_bytes(drawn)
        ref == Len(s.nodes) + 1
        node == KeyNode(key_id, key_bytes, t)
        linked == IF s.head = NoRef
                  THEN Append(s.nodes, node)
                  ELSE Append([s.nodes EXCEPT ![s.tail].next = ref],
                              [node EXCEPT !.prev = s.tail])
    IN [s |-> [s EXCEPT !.nodes = linked,
                        !.head = IF s.head = NoRef THEN ref ELSE s.head,
                        !.tail = ref,
                        !.current = ref,
                        !.key_map = (key_id :> ref) @@ s.key_map,
                        !.size = s.size + 1],
        node |-> ref]

\* get_key_bytes without the revoked test
get_key_bytes_any(s, key_id) ==
    LET node == dict_get(s.key_map, key_id)
    IN IF node # NoRef THEN s.nodes[node].key_bytes ELSE None

get_key_bytes(s, key_id) ==
    LET node == dict_get(s.key_map, key_id)
    IN IF node # NoRef /\ ~s.nodes[node].revoked
       THEN s.nodes[node].key_bytes
       ELSE None

get_node(s, key_id) == dict_get(s.key_map, key_id)

\* revoke_key that flips the revoked flag
revoke_key_toggle(s, key_id, t) ==
    LET node == dict_get(s.key_map, key_id)
    IN IF node # NoRef
       THEN [s |-> [s EXCEPT !.nodes[node].revoked = ~@,
                             !.nodes[node].timestamp = t],
             ret |-> TRUE]
       ELSE [s |-> s, ret |-> FALSE]

revoke_key(s, key_id, t) ==
    LET node == dict_get(s.key_map, key_id)
    IN IF node # NoRef
       THEN [s |-> [s EXCEPT !.nodes[node].revoked = TRUE,
                             !.nodes[node].timestamp = t],
             ret |-> TRUE]
       ELSE [s |-> s, ret |-> FALSE]

\* the records met from a record on by following next, as display walks them
RECURSIVE chain(_, _)
chain(s, node) ==
    IF node = NoRef THEN <<>>
    ELSE <<node>> \o chain(s, s.nodes[node].next)

(* ------------------------------ SecureCV ------------------------------ *)

encrypt(plaintext, key, nonce) ==
    LET text == IF plaintext.type # "str" THEN json_dumps(plaintext)
                ELSE plaintext.val[1]
        ciphertext == AESGCM_encrypt(key, nonce, utf8encode(text))
    IN [nonce |-> b64encode(nonce),
        ciphertext |-> b64encode(ciphertext),
        type |-> plaintext.type]

decrypt(env, key) ==
    LET nonce == b64decode(env.nonce)
        ciphertext == b64decode(env.ciphertext)
    IN IF ~AESGCM_valid(key, nonce, ciphertext) THEN NoneValue
       ELSE LET plaintext == utf8decode(ciphertext.data)
            IN IF env.type \in {"list", "dict"}
               THEN IF JsonParsable(plaintext) THEN json_loads(plaintext)
                    ELSE NoneValue
               ELSE PyStr(plaintext)

\* get_field that first asks the registry for the field's key and refuses a
\* key that is revoked or is not the one it was given
get_field_checked(s, field, key) ==
    IF field \notin DOMAIN s.encrypted THEN NoneValue
    ELSE IF get_key_bytes(s, s.field_key_map[field]) # key THEN NoneValue
    ELSE decrypt(s.encrypted[field], key)

get_field(s, field, key) ==
    IF field \notin DOMAIN s.encrypted THEN NoneValue
    ELSE decrypt(s.encrypted[field], key)


\* choose_key that reuses the current key in every mode
choose_key_reuse(s, mode, t) ==
    IF s.current = NoRef THEN create_key(s, t) ELSE [s |-> s, node |-> s.current]

\* choose_key that creates a key for every field in every mode
choose_key_fresh(s, mode, t) == create_key(s, t)

\* the key a loaded field is encrypted under: a new one per field in multi
\* mode, otherwise the current key, created if there is none
choose_key(s, mode, t) ==
    IF mode = "multi" THEN create_key(s, t)
    ELSE IF s.current = NoRef THEN create_key(s, t)
    ELSE [s |-> s, node |-> s.current]

\* one iteration per (field, value) item of cv_dict, in dict order; a value
\* json.dumps cannot serialize raises out of the loop after the key choice
RECURSIVE load_items(_, _, _, _, _, _)
load_items(s, items, i, mode, nonces, t) ==
    IF i > Len(items) THEN [s |-> s, raised |-> FALSE, stored |-> i - 1]
    ELSE LET field == items[i][1]
             value == items[i][2]
             made == choose_key(s, mode, t)
             s1 == made.s
             key_node == made.node
             encrypted_data == encrypt(value, s1.nodes[key_node].key_bytes, nonces[i])
             s2 == [s1 EXCEPT
                      !.encrypted = (field :> encrypted_data) @@ @,
                      !.field_key_map = (field :> s1.nodes[key_node].key_id) @@ @,
                      !.nodes[key_node].encrypted_fields = @ \cup {field}]
         IN IF value.type # "str" /\ ~JsonSerializable(value)
            THEN [s |-> s1, raised |-> TRUE, stored |-> i - 1]
            ELSE load_items(s2, items, i + 1, mode, nonces, t)

load_cv(s, cv_dict, mode, nonces, t) ==
    IF ~cv_dict.isdict THEN [s |-> s, ret |-> FALSE, raised |-> FALSE, stored |-> 0]
    ELSE LET r == load_items(s, cv_dict.items, 1, mode, nonces, t)
         IN [s |-> r.s, ret |-> ~r.raised, raised |-> r.raised, stored |-> r.stored]

\* the re-keying that leaves the stored envelope as it was
rekey_keep_envelope(s, field, plaintext, old_key_id, nonce, t) ==
    LET made == create_key(s, t)
        s1 == made.s
        new_key_node == made.node
        s2 == [s1 EXCEPT !.field_key_map[field] = s1.nodes[new_key_node].key_id]
        old_node == get_node(s2, old_key_id)
        s3 == IF old_node # NoRef
              THEN [s2 EXCEPT !.nodes[old_node].encrypted_fields = @ \ {field}]
              ELSE s2
        s4 == [s3 EXCEPT !.nodes[new_key_node].encrypted_fields = @ \cup {field}]
    IN [s |-> s4, ret |-> s1.nodes[new_key_node].key_id]

\* the re-keying that also marks the old key revoked
rekey_revoking(s, field, plaintext, old_key_id, nonce, t) ==
    LET made == create_key(s, t)
        s1 == made.s
        new_key_node == made.node
        s2 == [s1 EXCEPT
                 !.encrypted[field] =
                     encrypt(plaintext, s1.nodes[new_key_node].key_bytes, nonce),
                 !.field_key_map[field] = s1.nodes[new_key_node].key_id]
        old_node == get_node(s2, old_key_id)
        s3 == IF old_node # NoRef
              THEN [s2 EXCEPT !.nodes[old_node].encrypted_fields = @ \ {field},
                              !.nodes[old_node].revoked = TRUE]
              ELSE s2
        s4 == [s3 EXCEPT !.nodes[new_key_node].encrypted_fields = @ \cup {field}]
    IN [s |-> s4, ret |-> s1.nodes[new_key_node].key_id]

\* the re-keying that does not enter the field in the new key's field set
rekey_untracked(s, field, plaintext, old_key_id, nonce, t) ==
    LET made == create_key(s, t)
        s1 == made.s
        new_key_node == made.node
        s2 == [s1 EXCEPT
                 !.encrypted[field] =
                     encrypt(plaintext, s1.nodes[new_key_node].key_bytes, nonce),
                 !.field_key_map[field] = s1.nodes[new_key_node].key_id]
        old_node == get_node(s2, old_key_id)
        s3 == IF old_node # NoRef
              THEN [s2 EXCEPT !.nodes[old_node].encrypted_fields = @ \ {field}]
              ELSE s2
    IN [s |-> s3, ret |-> s1.nodes[new_key_node].key_id]

\* the re-keying that leaves the field mapped to its old key id
rekey_stale_map(s, field, plaintext, old_key_id, nonce, t) ==
    LET made == create_key(s, t)
        s1 == made.s
        new_key_node == made.node
        s2 == [s1 EXCEPT
                 !.encrypted[field] =
                     encrypt(plaintext, s1.nodes[new_key_node].key_bytes, nonce)]
    IN [s |-> s2, ret |-> s1.nodes[new_key_node].key_id]

\* second half of rotate_field_key: new key, re-encryption, bookkeeping
rekey(s, field, plaintext, old_key_id, nonce, t) ==
    LET made == create_key(s, t)
        s1 == made.s
        new_key_node == made.node
        s2 == [s1 EXCEPT
                 !.encrypted[field] =
                     encrypt(plaintext, s1.nodes[new_key_node].key_bytes, nonce),
                 !.field_key_map[field] = s1.nodes[new_key_node].key_id]
        old_node == get_node(s2, old_key_id)
        s3 == IF old_node # NoRef
              THEN [s2 EXCEPT !.nodes[old_node].encrypted_fields = @ \ {field}]
              ELSE s2
        s4 == [s3 EXCEPT !.nodes[new_key_node].encrypted_fields = @ \cup {field}]
    IN [s |-> s4, ret |-> s1.nodes[new_key_node].key_id]

\* rotate_field_key that creates the new key before it tries the old one
rotate_field_key_eager(s, field, nonce, t) ==
    IF field \notin DOMAIN s.encrypted THEN [s |-> s, ret |-> None]
    ELSE LET old_key_id == s.field_key_map[field]
             old_key == get_key_bytes(s, old_key_id)
             plaintext == decrypt(s.encrypted[field], old_key)
         IN IF old_key = None THEN [s |-> create_key(s, t).s, ret |-> None]
            ELSE IF plaintext = NoneValue THEN [s |-> create_key(s, t).s, ret |-> None]
            ELSE rekey(s, field, plaintext, old_key_id, nonce, t)

rotate_field_key(s, field, nonce, t) ==
    IF field \notin DOMAIN s.encrypted THEN [s |-> s, ret |-> None]
    ELSE LET old_key_id == s.field_key_map[field]
             old_key == get_key_bytes(s, old_key_id)
             plaintext == decrypt(s.encrypted[field], old_key)
         IN IF old_key = None THEN [s |-> s, ret |-> None]
            ELSE IF plaintext = NoneValue THEN [s |-> s, ret |-> None]
            ELSE rekey(s, field, plaintext, old_key_id, nonce, t)

NoneDict == [none |-> TRUE]

\* get_shareable_key without the revoked test
get_shareable_key_any(s, field) ==
    IF field \notin DOMAIN s.field_key_map THEN NoneDict
    ELSE LET key_id == s.field_key_map[field]
             node == get_node(s, key_id)
         IN IF node # NoRef
            THEN [key_id |-> key_id,
                  key |-> b64encode(s.nodes[node].key_bytes),
                  fields |-> s.nodes[node].encrypted_fields]
            ELSE NoneDict

get_shareable_key(s, field) ==
    IF field \notin DOMAIN s.field_key_map THEN NoneDict
    ELSE LET key_id == s.field_key_map[field]
             node == get_node(s, key_id)
         IN IF node # NoRef /\ ~s.nodes[node].revoked
            THEN [key_id |-> key_id,
                  key |-> b64encode(s.nodes[node].key_bytes),
                  fields |-> s.nodes[node].encrypted_fields]
            ELSE NoneDict

get_all_keys(s) ==
    LET referenced == {s.field_key_map[f] : f \in DOMAIN s.field_key_map}
        exported == {key_id \in referenced :
                        /\ get_node(s, key_id) # NoRef
                        /\ ~s.nodes[get_node(s, key_id)].revoked}
    IN [keys |-> [key_id \in exported |->
                    [key |-> b64encode(s.nodes[get_node(s, key_id)].key_bytes),
                     fields |-> s.nodes[get_node(s, key_id)].encrypted_fields]],
        field_map |-> s.field_key_map]

(* ------------------------------- inputs ------------------------------- *)

Distinct(items) == \A i, j \in DOMAIN items : i # j => items[i][1] # items[j][1]

\* dicts with keys in Fields, as item sequences in insertion order
DictItems == {items \in UNION {[1..n -> Fields \X Values] : n \in 0..Cardinality(Fields)} :
                Distinct(items)}

NotADict == [isdict |-> FALSE, items |-> <<>>]
CvInputs == {[isdict |-> TRUE, items |-> items] : items \in DictItems} \cup {NotADict}

Modes == {"single", "multi"}

KeyIdInputs == DOMAIN key_map \cup {"id0"}
KeyInputs == {nodes[n].key_bytes : n \in DOMAIN nodes} \cup {"key0"}

(* ------------------------------- actions ------------------------------ *)

Install(s) ==
    /\ nodes' = s.nodes
    /\ head' = s.head
    /\ tail' = s.tail
    /\ current' = s.current
    /\ key_map' = s.key_map
    /\ size' = s.size
    /\ encrypted' = s.encrypted
    /\ field_key_map' = s.field_key_map

\* the position and the locals of a rotate_field_key call whose statements
\* run one at a time; no call is in progress at pc "idle"
RotIdle == [pc |-> "idle", field |-> None, plaintext |-> NoneValue,
            old_key_id |-> None, new_key_node |-> NoRef]

\* every state-changing call is counted, up to MaxOps calls in a run
Count == ops < MaxOps /\ ops' = ops + 1

Init ==
    /\ nodes = <<>>
    /\ head = NoRef
    /\ tail = NoRef
    /\ current = NoRef
    /\ key_map = <<>>
    /\ size = 0
    /\ encrypted = <<>>
    /\ field_key_map = <<>>
    /\ now = 0
    /\ last = "init"
    /\ loadedMulti = {}
    /\ revokedOk = {}
    /\ ops = 0
    /\ rot = RotIdle

Tick ==
    /\ now < MaxTime
    /\ now' = now + 1
    /\ UNCHANGED <<nodes, head, tail, current, key_map, size, encrypted,
                   field_key_map, last, loadedMulti, revokedOk, ops, rot>>

Load ==
    \E cv \in CvInputs, mode \in Modes :
      \E nonces \in [1..Len(cv.items) -> NonceSpace] :
        \E r \in {load_cv(State, cv, mode, nonces, now)} :
           /\ r.s.size <= MaxKeys
           /\ Count
           /\ Install(r.s)
           /\ last' = (IF r.ret THEN "load" ELSE "load_failed")
           /\ loadedMulti' = LET done == {cv.items[i][1] : i \in 1..r.stored}
                             IN IF mode = "multi" THEN loadedMulti \cup done
                                ELSE loadedMulti \ done
           /\ UNCHANGED <<now, revokedOk, rot>>

Rotate ==
    \E field \in Fields, nonce \in NonceSpace :
        \E r \in {rotate_field_key(State, field, nonce, now)} :
           /\ r.s.size <= MaxKeys
           /\ Count
           /\ Install(r.s)
           /\ last' = (IF r.ret # None THEN "rotate" ELSE "rotate_failed")
           /\ UNCHANGED <<now, loadedMulti, revokedOk, rot>>

Revoke ==
    \E key_id \in KeyIdInputs :
        \E r \in {revoke_key(State, key_id, now)} :
           /\ Count
           /\ Install(r.s)
           /\ last' = (IF r.ret THEN "revoke" ELSE "revoke_failed")
           /\ revokedOk' = IF r.ret THEN revokedOk \cup {key_id} ELSE revokedOk
           /\ UNCHANGED <<now, loadedMulti, rot>>

\* the read-only handlers: they return a value and leave every variable alone
GetField ==
    \E field \in Fields, key \in KeyInputs :
        /\ get_field(State, field, key) \in JsonValues \cup {PyStr("5"), NoneValue}
        /\ UNCHANGED vars

GetKeyBytes ==
    \E key_id \in KeyIdInputs :
        /\ get_key_bytes(State, key_id) \in KeyInputs \cup {None}
        /\ UNCHANGED vars

GetNode ==
    \E key_id \in KeyIdInputs :
        /\ get_node(State, key_id) \in DOMAIN nodes \cup {NoRef}
        /\ UNCHANGED vars

GetShareableKey ==
    \E field \in Fields :
        /\ DOMAIN get_shareable_key(State, field) \in {{"none"}, {"key_id", "key", "fields"}}
        /\ UNCHANGED vars

GetAllKeys ==
    /\ DOMAIN get_all_keys(State).keys \subseteq DOMAIN key_map
    /\ UNCHANGED vars

\* a bit of a stored ciphertext or nonce is flipped by whoever holds the
\* exported encrypted record
Tamper ==
    \E field \in DOMAIN encrypted :
        /\ \/ encrypted' = [encrypted EXCEPT ![field].ciphertext =
                               b64encode([b64decode(@) EXCEPT !.intact = FALSE])]
           \/ \E n \in 0..(MaxNonce + 1) :
                /\ n # b64decode(encrypted[field].nonce)
                /\ encrypted' = [encrypted EXCEPT ![field].nonce = b64encode(n)]
        /\ Count
        /\ last' = "tamper"
        /\ UNCHANGED <<nodes, head, tail, current, key_map, size,
                       field_key_map, now, loadedMulti, revokedOk, rot>>

Next ==
    \/ Load
    \/ Rotate
    \/ Revoke
    \/ GetField
    \/ GetKeyBytes
    \/ GetNode
    \/ GetShareableKey
    \/ GetAllKeys

Spec == Init /\ [][Next]_vars

NextTamper ==
    \/ Next
    \/ Tamper

\* the handlers that write, with the clock advancing between calls
NextClock ==
    \/ Tick
    \/ Load
    \/ Rotate
    \/ Revoke

SpecClock == Init /\ [][NextClock]_vars

SpecTamper == Init /\ [][NextTamper]_vars

(* --------- rotate_field_key run statement by statement --------- *)

\* the checks of rotate_field_key up to the decryption under the old key: a
\* failed check returns None, otherwise the call goes on to create the key
RotBegin ==
    /\ rot.pc = "idle"
    /\ \E field \in Fields :
          IF field \notin DOMAIN encrypted
          THEN rot' = rot /\ last' = "rotate_failed"
          ELSE LET old_key_id == field_key_map[field]
                   old_key == get_key_bytes(State, old_key_id)
                   plaintext == decrypt(encrypted[field], old_key)
               IN IF old_key = None \/ plaintext = NoneValue
                  THEN rot' = rot /\ last' = "rotate_failed"
                  ELSE /\ size < MaxKeys
                       /\ rot' = [pc |-> "create", field |-> field,
                                  plaintext |-> plaintext,
                                  old_key_id |-> old_key_id,
                                  new_key_node |-> NoRef]
                       /\ last' = last
    /\ Count
    /\ UNCHANGED <<nodes, head, tail, current, key_map, size, encrypted,
                   field_key_map, now, loadedMulti, revokedOk>>

\* new_key_node = self.keys.create_key()
RotCreate ==
    /\ rot.pc = "create"
    /\ \E r \in {create_key(State, now)} :
          /\ Install(r.s)
          /\ rot' = [rot EXCEPT !.pc = "encrypt", !.new_key_node = r.node]
    /\ UNCHANGED <<now, last, loadedMulti, revokedOk, ops>>

\* self.encrypted[field] = self.encrypt(plaintext, new_key_node.key_bytes)
RotEncrypt ==
    /\ rot.pc = "encrypt"
    /\ \E nonce \in NonceSpace :
          encrypted' = [encrypted EXCEPT ![rot.field] =
                           encrypt(rot.plaintext,
                                   nodes[rot.new_key_node].key_bytes, nonce)]
    /\ rot' = [rot EXCEPT !.pc = "map"]
    /\ UNCHANGED <<nodes, head, tail, current, key_map, size, field_key_map,
                   now, last, loadedMulti, revokedOk, ops>>

\* the step that goes on without the assignment to field_key_map
RotMap_skip ==
    /\ rot.pc = "map"
    /\ rot' = [rot EXCEPT !.pc = "discard"]
    /\ UNCHANGED <<nodes, head, tail, current, key_map, size, encrypted,
                   field_key_map, now, last, loadedMulti, revokedOk, ops>>

\* self.field_key_map[field] = new_key_node.key_id
RotMap ==
    /\ rot.pc = "map"
    /\ field_key_map' = [field_key_map EXCEPT ![rot.field] =
                             nodes[rot.new_key_node].key_id]
    /\ rot' = [rot EXCEPT !.pc = "discard"]
    /\ UNCHANGED <<nodes, head, tail, current, key_map, size, encrypted,
                   now, last, loadedMulti, revokedOk, ops>>

\* old_node = self.keys.get_node(old_key_id), and the discard if it is there
RotDiscard ==
    /\ rot.pc = "discard"
    /\ LET old_node == get_node(State, rot.old_key_id)
       IN nodes' = IF old_node # NoRef
                   THEN [nodes EXCEPT ![old_node].encrypted_fields = @ \ {rot.field}]
                   ELSE nodes
    /\ rot' = [rot EXCEPT !.pc = "add"]
    /\ UNCHANGED <<head, tail, current, key_map, size, encrypted,
                   field_key_map, now, last, loadedMulti, revokedOk, ops>>

\* new_key_node.encrypted_fields.add(field), and the return of the new id
RotAdd ==
    /\ rot.pc = "add"
    /\ nodes' = [nodes EXCEPT ![rot.new_key_node].encrypted_fields =
                     @ \cup {rot.field}]
    /\ rot' = RotIdle
    /\ last' = "rotate"
    /\ UNCHANGED <<head, tail, current, key_map, size, encrypted,
                   field_key_map, now, loadedMulti, revokedOk, ops>>

\* the other writers, which run whole and only between rotate_field_key calls
LoadBetween == rot.pc = "idle" /\ Load

RevokeBetween == rot.pc = "idle" /\ Revoke

\* a rotate_field_key whose statements run one at a time, with the readers
\* of a field running between any two of them
NextTorn ==
    \/ LoadBetween
    \/ RevokeBetween
    \/ RotBegin
    \/ RotCreate
    \/ RotEncrypt
    \/ RotMap
    \/ RotDiscard
    \/ RotAdd
    \/ GetField
    \/ GetShareableKey

SpecTorn == Init /\ [][NextTorn]_vars

(* ------------------------------- claims ------------------------------- *)

\* the secret of a key record, as a holder who was given it knows it
secret_of(s, key_id) == s.nodes[s.key_map[key_id]].key_bytes

Revoked(s, key_id) == s.nodes[s.key_map[key_id]].revoked

DictInputs == {cv \in CvInputs : cv.isdict}

FieldsOf(cv) == {cv.items[i][1] : i \in DOMAIN cv.items}

\* C1: once revoke(id) has succeeded, get_field(f, secret_of(id)) returns
\* absent for every field f in every later state, also for a field whose
\* envelope was encrypted under that key before the revocation.
C1_RevokedKeyNeverDecrypts ==
    \A key_id \in revokedOk : \A f \in Fields :
        get_field(State, f, secret_of(State, key_id)) = NoneValue

\* C2: a successful rotate(f) returns a new id K2 different from the old id
\* K1; afterwards the secret of K1 no longer reads f and the secret of K2
\* reads the value the secret of K1 read immediately before.
C2_RotationInvalidatesOldKey ==
    \A f \in Fields, nonce \in NonceSpace :
        LET r == rotate_field_key(State, f, nonce, now)
            K1 == field_key_map[f]
            K2 == r.ret
        IN K2 # None =>
             /\ K2 # K1
             /\ K2 \notin DOMAIN key_map
             /\ r.s.field_key_map[f] = K2
             /\ get_field(r.s, f, secret_of(r.s, K1)) = NoneValue
             /\ get_field(State, f, secret_of(State, K1)) # NoneValue
             /\ get_field(r.s, f, secret_of(r.s, K2))
                  = get_field(State, f, secret_of(State, K1))

\* C2 witness: a rotate has just succeeded on a field that now reads under the
\* newest key only, while an older key record is still in the registry.
C2_Witness ==
    /\ last = "rotate"
    /\ \E f \in DOMAIN encrypted :
         /\ key_map[field_key_map[f]] = current
         /\ get_field(State, f, nodes[current].key_bytes) # NoneValue
         /\ \E n \in DOMAIN nodes :
              /\ n # current
              /\ get_field(State, f, nodes[n].key_bytes) = NoneValue

\* C3: a successful rotate(f) leaves field_to_key[g] and the envelope of g
\* unchanged for every other field g, leaves id, secret and revoked flag of
\* every existing key record unchanged, and every g on f's old key still
\* reads under that key.
C3_RotationLocality ==
    \A f \in Fields, nonce \in NonceSpace :
        LET r == rotate_field_key(State, f, nonce, now)
            K1 == field_key_map[f]
        IN r.ret # None =>
             /\ DOMAIN r.s.encrypted = DOMAIN encrypted
             /\ \A g \in DOMAIN encrypted \ {f} :
                  /\ r.s.field_key_map[g] = field_key_map[g]
                  /\ r.s.encrypted[g] = encrypted[g]
                  /\ field_key_map[g] = K1 =>
                       /\ get_field(r.s, g, secret_of(r.s, K1)) # NoneValue
                       /\ get_field(r.s, g, secret_of(r.s, K1))
                            = get_field(State, g, secret_of(State, K1))
             /\ \A n \in DOMAIN nodes :
                  /\ r.s.nodes[n].key_id = nodes[n].key_id
                  /\ r.s.nodes[n].key_bytes = nodes[n].key_bytes
                  /\ r.s.nodes[n].revoked = nodes[n].revoked

\* C3 witness: after a successful rotate of one field, another field is still
\* mapped to the older key, which still lists and still reads it.
C3_Witness ==
    /\ last = "rotate"
    /\ \E f, g \in DOMAIN encrypted :
         /\ f # g
         /\ key_map[field_key_map[f]] = current
         /\ key_map[field_key_map[g]] # current
         /\ f \notin nodes[key_map[field_key_map[g]]].encrypted_fields
         /\ g \in nodes[key_map[field_key_map[g]]].encrypted_fields
         /\ get_field(State, g, secret_of(State, field_key_map[g])) # NoneValue

\* C4: after a successful load, every loaded field f reads back, under the
\* secret of the key in field_to_key[f], a value equal to the loaded value v,
\* for text, list and mapping values and for non-text scalars alike.
C4_RoundTripAfterLoad ==
    \A cv \in DictInputs, mode \in Modes :
      \A nonces \in [1..Len(cv.items) -> NonceSpace] :
        LET r == load_cv(State, cv, mode, nonces, now)
        IN r.ret =>
             \A i \in DOMAIN cv.items :
                get_field(r.s, cv.items[i][1],
                          secret_of(r.s, r.s.field_key_map[cv.items[i][1]]))
                  = cv.items[i][2]

\* C5: any two distinct fields that were each last loaded in multi mode map to
\* different keys, and the secret exported for one does not read the other.
C5_MultiModeIsolation ==
    \A f1, f2 \in loadedMulti :
        f1 # f2 =>
          /\ field_key_map[f1] # field_key_map[f2]
          /\ get_field(State, f2, secret_of(State, field_key_map[f1])) = NoneValue
          /\ get_shareable_key(State, f1) # NoneDict =>
               get_field(State, f2, b64decode(get_shareable_key(State, f1).key))
                 = NoneValue

\* C5 witness: two fields are loaded in multi mode, each under its own live
\* key, and each reads under its own exported secret.
C5_Witness ==
    /\ last = "load"
    /\ Cardinality(loadedMulti) >= 2
    /\ \A f \in loadedMulti :
         /\ get_shareable_key(State, f) # NoneDict
         /\ get_field(State, f, b64decode(get_shareable_key(State, f).key)) # NoneValue

\* C6: immediately after a successful single-mode load, all fields of that
\* call map to one key, whose protected_fields holds every field of the call.
C6_SingleModeSharing ==
    \A cv \in DictInputs :
      \A nonces \in [1..Len(cv.items) -> NonceSpace] :
        LET r == load_cv(State, cv, "single", nonces, now)
        IN r.ret =>
             \A f1, f2 \in FieldsOf(cv) :
                /\ r.s.field_key_map[f1] = r.s.field_key_map[f2]
                /\ FieldsOf(cv) \subseteq
                     r.s.nodes[get_node(r.s, r.s.field_key_map[f1])].encrypted_fields

\* C6 witness: a single-mode load has just stored both fields under one key
\* that lists both.
C6_Witness ==
    /\ last = "load"
    /\ loadedMulti = {}
    /\ DOMAIN encrypted = Fields
    /\ \A f \in Fields :
         /\ key_map[field_key_map[f]] = current
         /\ nodes[current].encrypted_fields = Fields

\* C7: once revoke(id) has succeeded on an existing id, get_key_bytes(id)
\* returns absent in every later state, the same result as for an id never
\* created, while get_record(id) still returns the record, with revoked true.
C7_Revocation ==
    \A key_id \in revokedOk :
        /\ get_key_bytes(State, key_id) = None
        /\ get_key_bytes(State, key_id) = get_key_bytes(State, "id0")
        /\ get_node(State, key_id) # NoRef
        /\ nodes[get_node(State, key_id)].key_id = key_id
        /\ nodes[get_node(State, key_id)].revoked

\* C7 witness: a key was revoked and a later load has succeeded; the record
\* is still in the registry.
C7_Witness ==
    /\ last = "load"
    /\ \E key_id \in revokedOk :
         /\ get_node(State, key_id) # NoRef
         /\ \E f \in DOMAIN field_key_map : field_key_map[f] = key_id

\* C8: get_shareable_key(f) returns a secret exactly when f is a known field
\* whose key is not revoked, and the keys of get_all_keys() are exactly the
\* ids that occur in field_to_key and are not revoked.
C8_ExportsNoRevokedAllLive ==
    /\ \A f \in Fields :
         LET r == get_shareable_key(State, f)
         IN /\ f \notin DOMAIN field_key_map => r = NoneDict
            /\ f \in DOMAIN field_key_map =>
                 IF Revoked(State, field_key_map[f]) THEN r = NoneDict
                 ELSE /\ r # NoneDict
                      /\ r.key_id = field_key_map[f]
                      /\ b64decode(r.key) = secret_of(State, field_key_map[f])
    /\ DOMAIN get_all_keys(State).keys
         = {key_id \in DOMAIN key_map :
              /\ \E f \in DOMAIN field_key_map : field_key_map[f] = key_id
              /\ ~Revoked(State, key_id)}
    /\ \A key_id \in DOMAIN get_all_keys(State).keys :
         b64decode(get_all_keys(State).keys[key_id].key) = secret_of(State, key_id)

\* C8 witness: one field is on a revoked key and is not exported, another is
\* on a live key and is exported, and an unreferenced key exists.
C8_Witness ==
    \E f, g \in DOMAIN field_key_map :
        /\ Revoked(State, field_key_map[f])
        /\ get_shareable_key(State, f) = NoneDict
        /\ ~Revoked(State, field_key_map[g])
        /\ get_shareable_key(State, g) # NoneDict
        /\ DOMAIN get_all_keys(State).keys = {field_key_map[g]}

\* the three ways rotate_field_key fails
RotateFails(s, f) ==
    \/ f \notin DOMAIN s.encrypted
    \/ get_key_bytes(s, s.field_key_map[f]) = None
    \/ decrypt(s.encrypted[f], get_key_bytes(s, s.field_key_map[f])) = NoneValue

\* C9: a rotate that fails (unknown field, current key unknown or revoked, or
\* the current envelope does not decrypt) returns an error and leaves registry
\* and vault exactly as before; no new key is created.
C9_FailedRotateChangesNothing ==
    \A f \in Fields, nonce \in NonceSpace :
        LET r == rotate_field_key(State, f, nonce, now)
        IN /\ RotateFails(State, f) => r.ret = None
           /\ r.ret = None => r.s = State

\* C9 witness: a rotate has just failed on a present field whose key is live
\* but whose envelope no longer authenticates, while another field is on a
\* revoked key.
C9_Witness ==
    /\ last = "rotate_failed"
    /\ \E f \in DOMAIN encrypted :
         /\ get_key_bytes(State, field_key_map[f]) # None
         /\ decrypt(encrypted[f], get_key_bytes(State, field_key_map[f])) = NoneValue

\* C10: in every reachable state a field name f is in a key record's
\* protected_fields only if field_to_key[f] is that record's id.
C10_ProtectedFieldsExact ==
    \A n \in DOMAIN nodes : \A f \in nodes[n].encrypted_fields :
        /\ f \in DOMAIN field_key_map
        /\ field_key_map[f] = nodes[n].key_id

\* C11: revoke(id) on an already revoked key returns success and changes
\* nothing, no field of that key record included; revoke on an unknown id
\* returns not_found and changes nothing.
C11_RevokeIdempotent ==
    \A key_id \in KeyIdInputs :
        LET r == revoke_key(State, key_id, now)
        IN /\ key_id \notin DOMAIN key_map => ~r.ret /\ r.s = State
           /\ (key_id \in DOMAIN key_map /\ Revoked(State, key_id)) =>
                r.ret /\ r.s = State

\* the plaintexts encrypt is called with: loaded values, and what decrypt
\* returned to rotate_field_key
Plaintexts == JsonValues \cup {PyStr("5")}

\* the envelope is an output of encrypt under this secret
EncryptedUnder(env, key) ==
    \E v \in Plaintexts, n \in NonceSpace : env = encrypt(v, key, n)

\* the state with every key record revoked and the id index emptied
RegistryWiped(s) ==
    [s EXCEPT !.nodes = [n \in DOMAIN s.nodes |-> [s.nodes[n] EXCEPT !.revoked = TRUE]],
              !.key_map = <<>>,
              !.current = NoRef]

C13_VaultConsistency ==
    /\ DOMAIN encrypted = DOMAIN field_key_map
    /\ \A f \in DOMAIN field_key_map :
          /\ field_key_map[f] \in DOMAIN key_map
          /\ key_map[field_key_map[f]] \in DOMAIN nodes
          /\ nodes[key_map[field_key_map[f]]].key_id = field_key_map[f]
          /\ f \in nodes[key_map[field_key_map[f]]].encrypted_fields

\* C13 witness: after a successful rotation two present fields are mapped to
\* different key records.
C13_Witness ==
    /\ last = "rotate"
    /\ \E f, g \in DOMAIN encrypted : field_key_map[f] # field_key_map[g]

\* C14: the id index and the head-to-tail sequence hold the same key records,
\* each key id exactly once; size is the length of the sequence; current is
\* the tail, and is empty exactly when there is no key.
C14_RegistryStructure ==
    LET seq == chain(State, head)
    IN /\ \A i \in DOMAIN seq : /\ nodes[seq[i]].key_id \in DOMAIN key_map
                                /\ key_map[nodes[seq[i]].key_id] = seq[i]
       /\ \A key_id \in DOMAIN key_map :
             /\ \E i \in DOMAIN seq : seq[i] = key_map[key_id]
             /\ nodes[key_map[key_id]].key_id = key_id
       /\ \A i, j \in DOMAIN seq :
             i # j => nodes[seq[i]].key_id # nodes[seq[j]].key_id
       /\ size = Len(seq)
       /\ current = tail
       /\ tail = IF seq = <<>> THEN NoRef ELSE seq[Len(seq)]
       /\ current = NoRef <=> DOMAIN key_map = {}

\* C14 witness: a registry of three keys, built by loads and a rotation, one
\* of them revoked.
C14_Witness ==
    /\ last = "rotate"
    /\ Len(chain(State, head)) = MaxKeys
    /\ \E key_id \in DOMAIN key_map : Revoked(State, key_id)

\* the present fields of s are present in s2 and mapped to the same key id,
\* the fields of moved excepted, which are present under a key id that s does
\* not know
FieldsStay(s, s2, moved) ==
    \A f \in DOMAIN s.encrypted :
        /\ f \in DOMAIN s2.encrypted
        /\ f \in DOMAIN s2.field_key_map
        /\ IF f \in moved
           THEN s2.field_key_map[f] \notin DOMAIN s.key_map
           ELSE s2.field_key_map[f] = s.field_key_map[f]

\* C15: a present field stays present, and the key id it maps to changes only
\* through a successful rotate of that field, to a newly created id; a
\* revoke, a failed rotate, the rotate of another field and a later load
\* leave every present field on its key.
C15_FieldKeyChangesOnlyByRotate ==
    /\ \A g \in Fields, nonce \in NonceSpace :
          LET r == rotate_field_key(State, g, nonce, now)
          IN FieldsStay(State, r.s, IF r.ret # None THEN {g} ELSE {})
    /\ \A key_id \in KeyIdInputs :
          FieldsStay(State, revoke_key(State, key_id, now).s, {})
    /\ \A cv \in CvInputs, mode \in Modes :
          \A nonces \in [1..Len(cv.items) -> NonceSpace] :
              FieldsStay(State, load_cv(State, cv, mode, nonces, now).s, {})

\* C16: the stored envelope of every present field f is encrypted under the
\* secret of the key record field_to_key[f] names; whenever that key is not
\* revoked, the secret get_shareable_key(f) returns decrypts f and rotate(f)
\* succeeds.
C16_KeyEnvelopeAgreement ==
    \A f \in DOMAIN encrypted :
        LET key_id == field_key_map[f]
            shared == get_shareable_key(State, f)
        IN /\ EncryptedUnder(encrypted[f], secret_of(State, key_id))
           /\ ~Revoked(State, key_id) =>
                /\ shared # NoneDict
                /\ shared.key_id = key_id
                /\ get_field(State, f, b64decode(shared.key)) # NoneValue
                /\ \A nonce \in NonceSpace :
                      rotate_field_key(State, f, nonce, now).ret # None

\* C16 witness: after a load in single mode and a rotation, two fields sit on
\* different live keys and each exported secret reads its own field only.
C16_Witness ==
    /\ last = "rotate"
    /\ \E f, g \in DOMAIN encrypted :
          /\ field_key_map[f] # field_key_map[g]
          /\ ~Revoked(State, field_key_map[f])
          /\ ~Revoked(State, field_key_map[g])
          /\ get_field(State, f, b64decode(get_shareable_key(State, f).key)) # NoneValue
          /\ get_field(State, g, b64decode(get_shareable_key(State, f).key)) = NoneValue

\* C17: no field is newly encrypted under a revoked key: after a load every
\* field it stored, and after a successful rotate the rotated field, is
\* mapped to a key that is not revoked, also when the current key was revoked
\* before a load in single mode.
C17_NoNewEncryptionUnderRevokedKey ==
    /\ \A cv \in CvInputs, mode \in Modes :
          \A nonces \in [1..Len(cv.items) -> NonceSpace] :
              LET r == load_cv(State, cv, mode, nonces, now)
              IN \A i \in 1..r.stored :
                    ~Revoked(r.s, r.s.field_key_map[cv.items[i][1]])
    /\ \A f \in Fields, nonce \in NonceSpace :
          LET r == rotate_field_key(State, f, nonce, now)
          IN r.ret # None => ~Revoked(r.s, r.s.field_key_map[f])

\* the ordered key sequence of the registry, head first
KeySeq == chain(State, head)

\* C18: every step leaves the ordered key sequence a prefix of the new one,
\* with the id and the secret of every existing record unchanged, and a
\* record that is revoked stays revoked.
C18_AppendOnlyRevocationTerminal ==
    [][/\ Len(KeySeq') >= Len(KeySeq)
       /\ \A i \in DOMAIN KeySeq :
             /\ KeySeq'[i] = KeySeq[i]
             /\ nodes'[KeySeq[i]].key_id = nodes[KeySeq[i]].key_id
             /\ nodes'[KeySeq[i]].key_bytes = nodes[KeySeq[i]].key_bytes
             /\ nodes[KeySeq[i]].revoked => nodes'[KeySeq[i]].revoked]_vars

\* C18 witness: the registry has grown to three records, a record before the
\* last one is revoked, and a revoke was the last of four calls.
C18_Witness ==
    /\ last = "revoke"
    /\ ops = MaxOps
    /\ Len(KeySeq) = MaxKeys
    /\ \E i \in DOMAIN KeySeq : i < MaxKeys /\ nodes[KeySeq[i]].revoked

\* the secret get_shareable_key(f) hands out does not decrypt f
ExportFailsToDecrypt(s, f) ==
    LET shared == get_shareable_key(s, f)
    IN /\ shared # NoneDict
       /\ get_field(s, f, b64decode(shared.key)) = NoneValue

\* the envelope of f is not under the secret of the key field_to_key[f] names
Torn(s, f) == ~EncryptedUnder(s.encrypted[f], secret_of(s, s.field_key_map[f]))

\* C19: with the statements of rotate(f) run one at a time between readers,
\* a state where the envelope of f and field_to_key[f] disagree, or where the
\* key exported for f fails to decrypt f, occurs only inside a rotate of f,
\* between the replacement of the envelope and the update of field_to_key[f];
\* between whole calls of rotate and load no reader sees such a state.
C19_TornOnlyInsideRotate ==
    \A f \in DOMAIN encrypted :
        (Torn(State, f) \/ ExportFailsToDecrypt(State, f))
            => (rot.pc = "map" /\ rot.field = f)

\* C19 witness: inside a rotate of f the envelope is already under the new
\* key while field_to_key[f] still names the old key, and the key a reader
\* gets from get_shareable_key(f) fails to decrypt f.
C19_Witness ==
    /\ rot.pc = "map"
    /\ field_key_map[rot.field] = rot.old_key_id
    /\ EncryptedUnder(encrypted[rot.field], nodes[rot.new_key_node].key_bytes)
    /\ ExportFailsToDecrypt(State, rot.field)

\* the number of key records a call added
KeysAdded(s, s2) == Len(s2.nodes) - Len(s.nodes)

\* C20: a load in multi mode of n fields adds n keys; a load in single mode
\* adds one key if there is no current key and none otherwise; a successful
\* rotate adds one key, which becomes current; revoke and every failed
\* operation add none.
C20_KeyCountAccounting ==
    /\ \A cv \in CvInputs, mode \in Modes :
          \A nonces \in [1..Len(cv.items) -> NonceSpace] :
              LET r == load_cv(State, cv, mode, nonces, now)
                  n == Len(cv.items)
              IN /\ ~r.ret => KeysAdded(State, r.s) = 0
                 /\ (r.ret /\ mode = "multi") => KeysAdded(State, r.s) = n
                 /\ (r.ret /\ mode = "single" /\ n > 0) =>
                       KeysAdded(State, r.s) = IF current = NoRef THEN 1 ELSE 0
    /\ \A f \in Fields, nonce \in NonceSpace :
          LET r == rotate_field_key(State, f, nonce, now)
          IN IF r.ret # None
             THEN /\ KeysAdded(State, r.s) = 1
                  /\ r.s.current = r.s.key_map[r.ret]
                  /\ r.s.current = Len(r.s.nodes)
             ELSE KeysAdded(State, r.s) = 0
    /\ \A key_id \in KeyIdInputs :
          KeysAdded(State, revoke_key(State, key_id, now).s) = 0

\* every key record of s is in s2 with the timestamp it has in s
TimestampsKept(s, s2) ==
    \A n \in DOMAIN s.nodes :
        /\ n \in DOMAIN s2.nodes
        /\ s2.nodes[n].timestamp = s.nodes[n].timestamp

\* C21: the creation timestamp of a key record is set once: a revoke, a load
\* or a rotate, at whatever time it is called, leaves the timestamp of every
\* record that exists before the call as create_key set it.
C21_CreationTimestampSetOnce ==
    /\ \A key_id \in KeyIdInputs :
          TimestampsKept(State, revoke_key(State, key_id, now).s)
    /\ \A cv \in CvInputs, mode \in Modes :
          \A nonces \in [1..Len(cv.items) -> NonceSpace] :
              TimestampsKept(State, load_cv(State, cv, mode, nonces, now).s)
    /\ \A f \in Fields, nonce \in NonceSpace :
          TimestampsKept(State, rotate_field_key(State, f, nonce, now).s)

====
